---- MODULE Spec2Model ----
(***************************************************************************)
(* A model of scraper.py: the three per-source scrape pipelines            *)
(* (allevents.ug and evento.ug through scrape_site_with_playwright,        *)
(* quicket.co.ug through scrape_quicket), the Firestore collections they   *)
(* read and append to, and the pure helpers they call.                     *)
(*                                                                         *)
(* Text is modelled as a sequence of one-character strings, so that        *)
(* str.lower, str.strip, str.replace, str.split, the `in` test and         *)
(* datetime.strptime are computed character by character.                  *)
(* Instants are minutes since 1900-01-01T00:00Z (1900 is the year strptime *)
(* supplies when the format has no %Y).                                    *)
(***************************************************************************)
EXTENDS Integers, Sequences, FiniteSets, TLC

(***************************************************************************)
(* Python values                                                           *)
(***************************************************************************)
None ==
    <<"None">>

UpperLetters ==
    <<"A","B","C","D","E","F","G","H","I","J","K","L","M",
      "N","O","P","Q","R","S","T","U","V","W","X","Y","Z">>

LowerLetters ==
    <<"a","b","c","d","e","f","g","h","i","j","k","l","m",
      "n","o","p","q","r","s","t","u","v","w","x","y","z">>

Digits ==
    <<"0","1","2","3","4","5","6","7","8","9">>

\* str.lower() on one character
lower_char(c) ==
    IF \E i \in 1..Len(UpperLetters) : UpperLetters[i] = c
    THEN LowerLetters[CHOOSE i \in 1..Len(UpperLetters) : UpperLetters[i] = c]
    ELSE c

\* str.lower()
lower(s) ==
    [i \in 1..Len(s) |-> lower_char(s[i])]

IsSpace(c) ==
    c \in {" ", "\t", "\n"}

IsDigit(c) ==
    \E i \in 1..Len(Digits) : Digits[i] = c

DigitVal(c) ==
    (CHOOSE i \in 1..Len(Digits) : Digits[i] = c) - 1

RECURSIVE lstrip(_)
lstrip(s) ==
    IF s # <<>> /\ IsSpace(Head(s)) THEN lstrip(Tail(s)) ELSE s

RECURSIVE rstrip(_)
rstrip(s) ==
    IF s # <<>> /\ IsSpace(s[Len(s)]) THEN rstrip(SubSeq(s, 1, Len(s) - 1)) ELSE s

\* str.strip()
strip(s) ==
    rstrip(lstrip(s))

\* s[pos:pos+len(pat)] == pat   (pos is 1-based)
MatchAt(s, pos, pat) ==
    /\ pos + Len(pat) - 1 <= Len(s)
    /\ \A j \in 1..Len(pat) : s[pos + j - 1] = pat[j]

\* str.startswith
startswith(s, pre) ==
    MatchAt(s, 1, pre)

\* pat in s
Contains(s, pat) ==
    \E pos \in 1..(Len(s) + 1) : MatchAt(s, pos, pat)

\* str.replace(old, new): leftmost, non-overlapping occurrences, old non-empty
RECURSIVE replace(_, _, _)
replace(s, old, new) ==
    IF s = <<>> THEN <<>>
    ELSE IF MatchAt(s, 1, old)
         THEN new \o replace(SubSeq(s, Len(old) + 1, Len(s)), old, new)
         ELSE <<Head(s)>> \o replace(Tail(s), old, new)

\* str.split(sep) for a one-character separator: always at least one part
RECURSIVE split(_, _)
split(s, sep) ==
    IF \E i \in 1..Len(s) : s[i] = sep
    THEN LET i == CHOOSE k \in 1..Len(s) :
                      s[k] = sep /\ \A j \in 1..(k - 1) : s[j] # sep
         IN  <<SubSeq(s, 1, i - 1)>> \o split(SubSeq(s, i + 1, Len(s)), sep)
    ELSE <<s>>

\* Python truthiness of an optional string
Truthy(s) ==
    s # None /\ s # <<>>

(***************************************************************************)
(* Module-level helpers of scraper.py                                      *)
(***************************************************************************)
ENJOYMENT_CATEGORIES ==
    << <<"p","a","r","t","y">>,
       <<"t","r","i","p">>,
       <<"t","o","u","r">>,
       <<"c","o","n","c","e","r","t">>,
       <<"f","e","s","t","i","v","a","l">>,
       <<"b","r","u","n","c","h">> >>

normalize_string(s) ==
    IF Truthy(s) THEN lower(strip(s)) ELSE <<>>


\* a variant of enjoyment_text that joins name and description without the space
enjoyment_text_joined(event_name, description) ==
    lower(event_name \o description)

\* the f-string of is_enjoyment_event: name, one space, description
enjoyment_text(event_name, description) ==
    lower(event_name \o <<" ">> \o description)

is_enjoyment_event(event_name, description) ==
    LET text == enjoyment_text(event_name, description)
    IN  \E k \in 1..Len(ENJOYMENT_CATEGORIES) : Contains(text, ENJOYMENT_CATEGORIES[k])

(***************************************************************************)
(* datetime: strptime, date.fromisoformat, instants                        *)
(***************************************************************************)
\* calendar.month_name, lower-cased (strptime compiles its pattern with
\* re.IGNORECASE); calendar.month_abbr is the first three letters of each
MonthNames ==
    << <<"j","a","n","u","a","r","y">>,
       <<"f","e","b","r","u","a","r","y">>,
       <<"m","a","r","c","h">>,
       <<"a","p","r","i","l">>,
       <<"m","a","y">>,
       <<"j","u","n","e">>,
       <<"j","u","l","y">>,
       <<"a","u","g","u","s","t">>,
       <<"s","e","p","t","e","m","b","e","r">>,
       <<"o","c","t","o","b","e","r">>,
       <<"n","o","v","e","m","b","e","r">>,
       <<"d","e","c","e","m","b","e","r">> >>

MonthAbbr(i) ==
    SubSeq(MonthNames[i], 1, 3)

RECURSIVE ToInt(_)
ToInt(s) ==
    IF s = <<>> THEN 0
    ELSE ToInt(SubSeq(s, 1, Len(s) - 1)) * 10 + DigitVal(s[Len(s)])

AllDigits(s) ==
    \A i \in 1..Len(s) : IsDigit(s[i])

IsLeap(y) ==
    (y % 4 = 0 /\ y % 100 # 0) \/ y % 400 = 0

DaysInMonth(y, m) ==
    IF m = 2 THEN (IF IsLeap(y) THEN 29 ELSE 28)
    ELSE IF m \in {4, 6, 9, 11} THEN 30 ELSE 31

RECURSIVE DaysBeforeMonth(_, _)
DaysBeforeMonth(y, m) ==
    IF m = 1 THEN 0 ELSE DaysBeforeMonth(y, m - 1) + DaysInMonth(y, m - 1)

LeapsThrough(y) ==
    (y \div 4) - (y \div 100) + (y \div 400)

\* days from 1900-01-01 to the first of January of year y
DaysBeforeYear(y) ==
    (y - 1900) * 365 + LeapsThrough(y - 1) - LeapsThrough(1899)

MinutesPerDay ==
    24 * 60

\* a timezone-aware UTC datetime, as minutes since 1900-01-01T00:00Z
Instant(y, mo, d, h, mi) ==
    (DaysBeforeYear(y) + DaysBeforeMonth(y, mo) + (d - 1)) * MinutesPerDay + h * 60 + mi

\* datetime.combine(date, time, tzinfo=UTC), date given as the instant of its midnight
combine(date_midnight, h, mi) ==
    date_midnight + h * 60 + mi

\* datetime.date(): the instant of midnight of the same day
DateOf(instant) ==
    (instant \div MinutesPerDay) * MinutesPerDay

NoMatch ==
    [ok |-> FALSE]

\* what strptime starts from: year 1900, January the first, 00:00, no %I, no %p (1 is AM, 2 is PM)
StrptimeDefaults ==
    [ok |-> FALSE, y |-> 1900, mo |-> 1, d |-> 1, H |-> 0, I |-> -1, mi |-> 0, p |-> 0]

RECURSIVE SpaceRun(_, _)
SpaceRun(data, pos) ==
    IF pos <= Len(data) /\ IsSpace(data[pos]) THEN 1 + SpaceRun(data, pos + 1) ELSE 0

\* n digits at pos with a value in lo..hi: one alternative of a numeric directive,
\* as the sequence of the zero or one ways it matches
digits_alt(data, pos, acc, field, n, lo, hi) ==
    IF pos + n - 1 <= Len(data) /\ AllDigits(SubSeq(data, pos, pos + n - 1))
       /\ ToInt(SubSeq(data, pos, pos + n - 1)) >= lo
       /\ ToInt(SubSeq(data, pos, pos + n - 1)) <= hi
    THEN << [pos |-> pos + n,
             acc |-> [acc EXCEPT ![field] = ToInt(SubSeq(data, pos, pos + n - 1))]] >>
    ELSE << >>

\* one of words (lower-case) at pos, whatever its case: the zero or one ways it matches
word_alt(data, pos, acc, field, words) ==
    LET low == lower(SubSeq(data, pos, Len(data)))
        ms  == {i \in 1..Len(words) : startswith(low, words[i])}
    IN  IF ms = {} THEN << >>
        ELSE LET i == CHOOSE m \in ms : TRUE
             IN  << [pos |-> pos + Len(words[i]), acc |-> [acc EXCEPT ![field] = i]] >>

\* the ways the pattern of one token of the format matches at pos, in the order the
\* regular expression of strptime tries them
token_alts(data, pos, tok, acc) ==
    CASE tok = " " ->
            IF SpaceRun(data, pos) = 0 THEN << >>
            ELSE << [pos |-> pos + SpaceRun(data, pos), acc |-> acc] >>
      [] tok = "%d" ->
            digits_alt(data, pos, acc, "d", 2, 1, 31)
            \o digits_alt(data, pos, acc, "d", 1, 1, 9)
            \o (IF pos <= Len(data) /\ data[pos] = " "
                THEN digits_alt(data, pos + 1, acc, "d", 1, 1, 9) ELSE << >>)
      [] tok = "%I" ->
            digits_alt(data, pos, acc, "I", 2, 1, 12) \o digits_alt(data, pos, acc, "I", 1, 1, 9)
      [] tok = "%H" ->
            digits_alt(data, pos, acc, "H", 2, 0, 23) \o digits_alt(data, pos, acc, "H", 1, 0, 9)
      [] tok = "%M" ->
            digits_alt(data, pos, acc, "mi", 2, 0, 59) \o digits_alt(data, pos, acc, "mi", 1, 0, 9)
      [] tok = "%Y" ->
            digits_alt(data, pos, acc, "y", 4, 0, 9999)
      [] tok = "%B" ->
            word_alt(data, pos, acc, "mo", MonthNames)
      [] tok = "%b" ->
            word_alt(data, pos, acc, "mo", [i \in 1..12 |-> MonthAbbr(i)])
      [] tok = "%p" ->
            word_alt(data, pos, acc, "p", << <<"a","m">>, <<"p","m">> >>)
      [] OTHER ->
            IF pos <= Len(data) /\ lower_char(data[pos]) = lower_char(tok)
            THEN << [pos |-> pos + 1, acc |-> acc] >>
            ELSE << >>

\* the regular expression strptime builds from the format, matched from pos on with
\* backtracking. fmt is the format cut into directives, single literal characters
\* and " " (one or more blanks)
\* r if it is a match, or else rest
first_ok(r, rest) ==
    IF r.ok THEN r ELSE rest

RECURSIVE re_match(_, _, _, _, _, _)
RECURSIVE re_alts(_, _, _, _, _, _, _)

\* the first of the ways alts of token k, from the j-th on, after which the rest matches
re_alts(data, pos, fmt, k, acc, alts, j) ==
    IF j > Len(alts) THEN NoMatch
    ELSE first_ok(re_match(data, alts[j].pos, fmt, k + 1, alts[j].acc, 1),
                  re_alts(data, pos, fmt, k, acc, alts, j + 1))

re_match(data, pos, fmt, k, acc, j) ==
    IF k > Len(fmt)
    THEN (IF pos = Len(data) + 1 THEN [acc EXCEPT !.ok = TRUE] ELSE NoMatch)
    ELSE re_alts(data, pos, fmt, k, acc, token_alts(data, pos, fmt[k], acc), j)

\* the hour of a match: %H as it is, %I with %p (1 is AM, 2 is PM; no %p counts as AM)
match_hour(r) ==
    IF r.I = -1 THEN r.H
    ELSE IF r.p = 2
         THEN (IF r.I = 12 THEN 12 ELSE r.I + 12)
         ELSE (IF r.I = 12 THEN 0 ELSE r.I)

\* the datetime of a match; a day the month does not have is a ValueError
match_datetime(r) ==
    IF ~r.ok THEN NoMatch
    ELSE IF r.y < 1 \/ r.d > DaysInMonth(r.y, r.mo) THEN NoMatch
    ELSE [ok |-> TRUE, y |-> r.y, mo |-> r.mo, d |-> r.d, h |-> match_hour(r), mi |-> r.mi]

\* datetime.datetime.strptime(data, fmt): [ok |-> FALSE] stands for ValueError
strptime(data, fmt) ==
    match_datetime(re_match(data, 1, fmt, 1, StrptimeDefaults, 1))

\* the date of eight digits YYYYMMDD; a month or a day out of range is a ValueError
iso_date(y, mo, d) ==
    IF y >= 1 /\ mo \in 1..12 /\ d >= 1 /\ d <= DaysInMonth(y, mo)
    THEN [ok |-> TRUE, y |-> y, mo |-> mo, d |-> d]
    ELSE NoMatch

iso_digits(t) ==
    IF Len(t) = 8 /\ AllDigits(t)
    THEN iso_date(ToInt(SubSeq(t, 1, 4)), ToInt(SubSeq(t, 5, 6)), ToInt(SubSeq(t, 7, 8)))
    ELSE NoMatch

\* datetime.date.fromisoformat for the forms YYYY-MM-DD and YYYYMMDD
\* ([ok |-> FALSE] stands for ValueError)
fromisoformat(s) ==
    IF Len(s) = 10 /\ s[5] = "-" /\ s[8] = "-"
    THEN iso_digits(SubSeq(s, 1, 4) \o SubSeq(s, 6, 7) \o SubSeq(s, 9, 10))
    ELSE iso_digits(s)

\* the formats of the source, cut into tokens
FmtTime12 ==
    <<"%I", ":", "%M", " ", "%p">>

FmtTime24 ==
    <<"%H", ":", "%M">>

FmtQuicketDate ==
    <<"%B", " ", "%d", " ", "%Y">>

EventoFormats ==
    << <<"%B", " ", "%d", " ", "@", " ", "%I", ":", "%M", " ", "%p">>,
       <<"%d", " ", "%b", " ", "%Y", " ", "%H", ":", "%M">>,
       <<"%d", " ", "%b", " ", "%Y", " ", "%I", ":", "%M", " ", "%p">>,
       <<"%B", " ", "%d", ",", " ", "%Y", " ", "@", " ", "%I", ":", "%M", " ", "%p">> >>

\* .replace("st","").replace("nd","").replace("rd","").replace("th","")
strip_ordinals(s) ==
    replace(replace(replace(replace(s, <<"s","t">>, <<>>), <<"n","d">>, <<>>),
                    <<"r","d">>, <<>>), <<"t","h">>, <<>>)

(***************************************************************************)
(* Bounds of the model                                                     *)
(***************************************************************************)
\* cards one page shows
MaxCards ==
    2

\* cards read over all pages of a behaviour
MaxCardsTotal ==
    2

\* executions of scrape_all_sites by one process, one after the other
MaxRuns ==
    2

(***************************************************************************)
(* The sources (scrape_all_with_playwright) and the inputs of the model    *)
(***************************************************************************)
ALLEVENTS ==
    1

EVENTO ==
    2

QUICKET ==
    3

\* site["url"] of the two sites of scrape_all_with_playwright, and url of scrape_quicket
URLS ==
    << <<"h","t","t","p","s",":","/","/","a","l","l","e","v","e","n","t","s",".","u","g","/","e","v","e","n","t","s","/">>,
       <<"h","t","t","p","s",":","/","/","e","v","e","n","t","o",".","u","g","/","e","v","e","n","t","s","?","e","v","e","n","t","t","y","p","e","=","M","u","s","i","c","%","2","0","a","n","d","%","2","0","C","o","n","c","e","r","t","s">>,
       <<"h","t","t","p","s",":","/","/","w","w","w",".","q","u","i","c","k","e","t",".","c","o",".","u","g","/","e","v","e","n","t","s","/","u","g","a","n","d","a">> >>

\* scheme://host of a source url: what urljoin keeps of the base for a reference "/..."
RECURSIVE PathStart(_, _, _)
PathStart(u, pos, slashes) ==
    IF pos > Len(u) THEN pos
    ELSE IF u[pos] = "/"
         THEN (IF slashes = 2 THEN pos ELSE PathStart(u, pos + 1, slashes + 1))
         ELSE PathStart(u, pos + 1, slashes)

Origin(u) ==
    SubSeq(u, 1, PathStart(u, 1, 0) - 1)

\* urllib.parse.urljoin(base, ref) for a reference that starts with "/"
urljoin(base, ref) ==
    IF startswith(ref, <<"/","/">>)
    THEN SubSeq(base, 1, PathStart(base, 1, 0) - 3) \o ref
    ELSE Origin(base) \o ref

Processes ==
    {1, 2}

\* texts the pages of the model show
Titles ==
    { <<"T","r","i","p">>, <<"g","y","m">> }

VenueTexts ==
    { <<"C","l","u","b">>, <<"c","l","u","b">> }

LocationTexts ==
    { <<"K","l","a">> }

DescTexts ==
    { <<"t","o","u","r">> }

\* href of the title link: "", a path of the site, the same page with its host
Hrefs(s) ==
    { <<>>, <<"/","e","/","1">>, Origin(URLS[s]) \o <<"/","e","/","1">> }

\* datetime attribute of the AllEvents <time> element
DatetimeAttrs ==
    { None, <<"2","0","2","5","-","1","2","-","1","2">>, <<"2","0","2","5","-","1","2","-","1","0">>, <<"D","e","c"," ","1","2">> }

\* text of the AllEvents time element
AllEventsTimes ==
    { None, <<"7",":","3","0"," ","P","M">>, <<"1","9",":","3","0">> }

\* text of the Evento date element
EventoDates ==
    { None, <<"D","e","c","e","m","b","e","r"," ","1","2"," ","@"," ","7",":","0","0"," ","P","M">>, <<"1","2","t","h"," ","D","e","c"," ","2","0","2","5"," ","1","9",":","0","0">>,
      <<"1","0"," ","D","e","c"," ","2","0","2","5"," ","0","7",":","0","0"," ","P","M">>, <<"C","o","m","i","n","g"," ","s","o","o","n">> }

\* texts of the two Quicket date elements
QuicketDates ==
    { None, <<"F","r","i","d","a","y",","," ","D","e","c","e","m","b","e","r"," ","1","2",","," ","2","0","2","5">>, <<"R","u","n","s"," ","f","r","o","m"," ","D","e","c","e","m","b","e","r"," ","1","0",","," ","2","0","2","5">>,
      <<"1","2","/","1","2","/","2","0","2","5">> }

QuicketTimes ==
    { None, <<"1","9",":","3","0">>, <<"7",":","3","0"," ","P","M">> }

\* what datetime.datetime.now(datetime.UTC) can return
ClockReadings ==
    { Instant(2025, 12, 11, 12, 0), Instant(2025, 12, 12, 12, 0) }

\* str(e) of an exception of the browser or of the store client
ErrorTexts ==
    { <<"T","i","m","e","o","u","t"," ","6","0","0","0","0","m","s"," ","e","x","c","e","e","d","e","d",".">> }

(***************************************************************************)
(* One card of a page, as the element queries of the card loop see it.     *)
(* None stands for an element (or attribute) the card does not have;       *)
(* raises for a query on the card's elements raising.  The poster and the  *)
(* fee are read and stored unchanged and are left out.                     *)
(***************************************************************************)
RaisingCard ==
    [raises |-> TRUE, href |-> None, title |-> None, venue |-> None, location |-> None,
     date_el |-> FALSE, date |-> None, time |-> None, desc |-> None]

\* the optional elements (location, time, description) are shown one at a time,
\* on a card whose link is the path of the site and whose venue is lower-case
FewExtras(c, s) ==
    LET extras == {f \in {"location", "time", "desc"} : c[f] # None}
    IN  \/ extras = {}
        \/ /\ Cardinality(extras) = 1
           /\ c.href = <<"/","e","/","1">>
           /\ c.venue = <<"c","l","u","b">>

AllEventsCards ==
    { c \in [raises : {FALSE}, href : Hrefs(ALLEVENTS) \cup {None}, title : Titles,
             venue : VenueTexts, location : LocationTexts \cup {None},
             date_el : BOOLEAN, date : DatetimeAttrs, time : AllEventsTimes,
             desc : DescTexts \cup {None}] :
          /\ ~c.date_el => (c.date = None /\ c.time = None)
          /\ c.time # None => c.date = <<"2","0","2","5","-","1","2","-","1","2">>
          /\ FewExtras(c, ALLEVENTS) }
    \cup {RaisingCard}

\* Evento's venue and location selectors are the same, so both read one element
EventoCards ==
    { c \in [raises : {FALSE}, href : Hrefs(EVENTO) \cup {None}, title : Titles,
             venue : VenueTexts, location : VenueTexts,
             date_el : BOOLEAN, date : EventoDates, time : {None},
             desc : DescTexts \cup {None}] :
          /\ c.location = c.venue
          /\ c.date_el = (c.date # None)
          /\ FewExtras([c EXCEPT !.location = None], EVENTO) }
    \cup {RaisingCard}

\* Quicket reads no location and no description; its title is not the link
QuicketCards ==
    { c \in [raises : {FALSE}, href : Hrefs(QUICKET) \cup {None}, title : Titles,
             venue : VenueTexts, location : {None},
             date_el : BOOLEAN, date : QuicketDates, time : QuicketTimes,
             desc : {None}] :
          /\ c.date_el = (c.date # None)
          /\ c.time # None => c.date = <<"F","r","i","d","a","y",","," ","D","e","c","e","m","b","e","r"," ","1","2",","," ","2","0","2","5">>
          /\ FewExtras(c, QUICKET) }
    \cup {RaisingCard}

Cards(s) ==
    IF s = ALLEVENTS THEN AllEventsCards
    ELSE IF s = EVENTO THEN EventoCards ELSE QuicketCards

\* inner_text() if el else default
TextOr(el, default) ==
    IF el = None THEN default ELSE el

Unknown ==
    <<"U","n","k","n","o","w","n">>

\* the result of reading one card: "ok" with the locals of the loop body, or a
\* skip (an explicit skipped_events += 1; continue), or "raise" (the except clause
\* of the card: skipped_events += 1; continue)
Skip(why) ==
    [outcome |-> why]

\* datetime.UTC; a datetime without tzinfo is naive
UTC ==
    "UTC"

Parsed(date_obj, tzinfo) ==
    [outcome |-> "ok", date_obj |-> date_obj, tzinfo |-> tzinfo]

Locals(event_url, event_name, venue_name, location, d, description) ==
    IF d.outcome # "ok" THEN d
    ELSE [outcome |-> "ok", event_url |-> event_url, event_name |-> event_name,
          venue_name |-> venue_name, location |-> location, date_obj |-> d.date_obj,
          tzinfo |-> d.tzinfo, description |-> description, venue_id |-> 0]

\* a variant of allevents_combine in which a time text that does not parse
\* raises out of the date parsing
allevents_combine_strict(base_date, time_obj) ==
    IF ~base_date.ok \/ ~time_obj.ok THEN Skip("raise")
    ELSE Parsed(combine(Instant(base_date.y, base_date.mo, base_date.d, 0, 0),
                        time_obj.h, time_obj.mi), UTC)

\* datetime.combine(base_date, time_obj) or, when the time did not parse,
\* datetime.combine(base_date, datetime.time(0, 0))
allevents_combine(base_date, time_obj) ==
    IF ~base_date.ok THEN Skip("raise")
    ELSE IF time_obj.ok
         THEN Parsed(combine(Instant(base_date.y, base_date.mo, base_date.d, 0, 0),
                             time_obj.h, time_obj.mi), UTC)
         ELSE Parsed(combine(Instant(base_date.y, base_date.mo, base_date.d, 0, 0), 0, 0), UTC)

\* the AllEvents branch of the date parsing
allevents_date(c) ==
    IF ~c.date_el THEN Skip("no_date_element")
    ELSE IF ~Truthy(c.date) THEN Skip("no_date")
    ELSE allevents_combine(fromisoformat(c.date),
                           strptime(strip(TextOr(c.time, <<>>)), FmtTime12))

\* the first of EventoFormats, from k on, that clean_date matches
RECURSIVE evento_parsed(_, _)
evento_parsed(clean_date, k) ==
    IF k > Len(EventoFormats) THEN NoMatch
    ELSE first_ok(strptime(clean_date, EventoFormats[k]), evento_parsed(clean_date, k + 1))


\* a variant of evento_result in which a date no format matches becomes a reading
\* of the clock
evento_result_clock(parsed) ==
    IF ~parsed.ok THEN Parsed(Instant(2025, 12, 12, 12, 0), UTC)
    ELSE Parsed(Instant(parsed.y, parsed.mo, parsed.d, parsed.h, parsed.mi), UTC)

evento_result(parsed) ==
    IF ~parsed.ok THEN Skip("no_date")
    ELSE Parsed(Instant(parsed.y, parsed.mo, parsed.d, parsed.h, parsed.mi), UTC)

\* the Evento branch of the date parsing
evento_date(c) ==
    evento_result(evento_parsed(strip(strip_ordinals(strip(TextOr(c.date, <<>>)))), 1))

\* "allevents.ug" in url / "evento.ug" in url
site_date(url, c) ==
    IF Contains(url, <<"a","l","l","e","v","e","n","t","s",".","u","g">>) THEN allevents_date(c)
    ELSE IF Contains(url, <<"e","v","e","n","t","o",".","u","g">>) THEN evento_date(c)
    ELSE Skip("unknown_site")

\* the try block of one card of scrape_site_with_playwright
extract_site(url, c) ==
    IF c.raises THEN Skip("raise")
    ELSE Locals(c.href,
                strip(IF c.href # None THEN c.title ELSE Unknown),
                strip(TextOr(c.venue, Unknown)),
                strip(TextOr(c.location, strip(TextOr(c.venue, Unknown)))),
                site_date(url, c),
                strip(TextOr(c.desc, <<>>)))

\* clean_date of scrape_quicket up to the ordinal suffixes
quicket_clean(clean_date) ==
    strip_ordinals(IF startswith(lower(clean_date), <<"r","u","n","s"," ","f","r","o","m">>)
                   THEN strip(replace(clean_date, <<"R","u","n","s"," ","f","r","o","m">>, <<>>))
                   ELSE clean_date)

\* the weekday is dropped: "Weekday, Month Day, Year" or "Month Day, Year"
quicket_join(clean_date, parts) ==
    IF Len(parts) >= 3 THEN strip(parts[2]) \o <<" ">> \o strip(parts[3])
    ELSE IF Len(parts) = 2 THEN strip(parts[1]) \o <<" ">> \o strip(parts[2])
    ELSE clean_date

\* the date with the time of day, when there is a time text and it parses
quicket_combine(date_p, time_str, time_p) ==
    IF ~date_p.ok THEN Skip("no_date")
    ELSE IF Truthy(time_str) /\ time_p.ok
         THEN Parsed(combine(DateOf(Instant(date_p.y, date_p.mo, date_p.d, 0, 0)),
                             time_p.h, time_p.mi), UTC)
         ELSE Parsed(Instant(date_p.y, date_p.mo, date_p.d, 0, 0), UTC)

quicket_parse(clean_date, time_str) ==
    quicket_combine(strptime(quicket_join(clean_date, split(clean_date, ",")), FmtQuicketDate),
                    time_str,
                    strptime(strip(time_str), FmtTime24))

\* the date parsing try block of scrape_quicket
quicket_date(date_str, time_str) ==
    quicket_parse(quicket_clean(strip(date_str)), time_str)

\* the two try blocks of one card of scrape_quicket
extract_quicket(c) ==
    IF c.raises THEN Skip("raise")
    ELSE Locals(c.href,
                TextOr(c.title, Unknown),
                TextOr(c.venue, Unknown),
                TextOr(c.venue, Unknown),
                quicket_date(TextOr(c.date, <<>>), TextOr(c.time, <<>>)),
                <<>>)

\* the cards of source s in some order, and what reading each of them gives,
\* computed once
RECURSIVE SetToSeq(_)
SetToSeq(S) ==
    IF S = {} THEN << >>
    ELSE <<CHOOSE c \in S : TRUE>> \o SetToSeq(S \ {CHOOSE c \in S : TRUE})

CardList ==
    [s \in {ALLEVENTS, EVENTO, QUICKET} |-> SetToSeq(Cards(s))]

Extracted ==
    [s \in {ALLEVENTS, EVENTO, QUICKET} |->
        [i \in 1..Len(CardList[s]) |-> IF s = QUICKET THEN extract_quicket(CardList[s][i])
                                       ELSE extract_site(URLS[s], CardList[s][i])]]

(***************************************************************************)
(* State                                                                   *)
(***************************************************************************)
VARIABLES
    events,          \* the Firestore collection YoVibe/data/events, in insertion order
    venues,          \* the Firestore collection YoVibe/data/venues; a venue's id is its index
    now,             \* the last reading of the clock
    cards_left,      \* cards the pages may still show (MaxCardsTotal)
    pc,              \* per process: where it is in scrape_all_sites
    run,             \* per process: which execution of scrape_all_sites this is
    site,            \* per process: the source being scraped
    ncards,          \* per process: len(cards) of the page
    idx,             \* per process: the card of the loop
    added_events,    \* per process: local counter
    skipped_events,  \* per process: local counter
    new_venues,      \* per process: local counter
    card,            \* per process: the locals of the loop body
    scrape_summary,  \* per process: the module-level dict
    log,             \* per process: what the last print said
    probe            \* a call of a pure helper: its arguments and its result

vars ==
    <<events, venues, now, cards_left, pc, run, site, ncards, idx,
      added_events, skipped_events, new_venues, card, scrape_summary, log, probe>>

pipeline ==
    <<events, venues, now, cards_left, pc, run, site, ncards, idx,
      added_events, skipped_events, new_venues, card, scrape_summary, log>>

store ==
    <<events, venues>>

counters ==
    <<added_events, skipped_events, new_venues>>

\* no helper is being called
NoProbe ==
    [fn |-> "none"]

\* the locals of the loop body before a card is read
NoCard ==
    [outcome |-> "none"]

Min(a, b) ==
    IF a <= b THEN a ELSE b

\* scrape_summary[url] = entry
SummaryPut(summary, url, entry) ==
    [u \in DOMAIN summary \cup {url} |-> IF u = url THEN entry ELSE summary[u]]

ErrorEntry(text) ==
    [added_events |-> 0, skipped |-> 0, new_venues |-> 0, error |-> text]

\* the entry written at the end of a card loop that no exception left
FinishedEntry(p) ==
    [added_events |-> added_events[p], skipped |-> skipped_events[p],
     new_venues |-> new_venues[p], error |-> None]

Init ==
    /\ events = <<>>
    /\ venues = <<>>
    /\ now = Instant(2025, 12, 11, 12, 0)
    /\ cards_left = MaxCardsTotal
    /\ pc = [p \in Processes |-> IF p = 1 THEN "fetch" ELSE "off"]
    /\ run = [p \in Processes |-> 1]
    /\ site = [p \in Processes |-> ALLEVENTS]
    /\ ncards = [p \in Processes |-> 0]
    /\ idx = [p \in Processes |-> 0]
    /\ added_events = [p \in Processes |-> 0]
    /\ skipped_events = [p \in Processes |-> 0]
    /\ new_venues = [p \in Processes |-> 0]
    /\ card = [p \in Processes |-> NoCard]
    /\ scrape_summary = [p \in Processes |-> <<>>]
    /\ log = [p \in Processes |-> "none"]
    /\ probe = NoProbe

(***************************************************************************)
(* scrape_all_with_playwright: the sources one after the other             *)
(***************************************************************************)
\* the source returned (its counters are gone with it): the next one starts, or the
\* execution is over
NextSite(p) ==
    /\ site' = [site EXCEPT ![p] = IF @ = QUICKET THEN @ ELSE @ + 1]
    /\ pc' = [pc EXCEPT ![p] = IF site[p] = QUICKET THEN "done" ELSE "fetch"]
    /\ ncards' = [ncards EXCEPT ![p] = 0]
    /\ idx' = [idx EXCEPT ![p] = 0]
    /\ card' = [card EXCEPT ![p] = NoCard]
    /\ added_events' = [added_events EXCEPT ![p] = 0]
    /\ skipped_events' = [skipped_events EXCEPT ![p] = 0]
    /\ new_venues' = [new_venues EXCEPT ![p] = 0]

\* continue: the next card of the loop, or the end of the loop
NextCard(p) ==
    /\ idx' = [idx EXCEPT ![p] = @ + 1]
    /\ pc' = [pc EXCEPT ![p] = IF idx[p] + 1 > ncards[p] THEN "finish" ELSE "extract"]
    /\ card' = [card EXCEPT ![p] = NoCard]
    /\ UNCHANGED <<site, ncards>>

\* the outer except clause: the summary entry of the source is zeros and str(e)
SourceFails(p, text) ==
    /\ scrape_summary' = [scrape_summary EXCEPT ![p] = SummaryPut(@, URLS[site[p]], ErrorEntry(text))]
    /\ log' = [log EXCEPT ![p] = "error"]
    /\ NextSite(p)


\* a variant of FetchFails in which the exception leaves scrape_all_with_playwright:
\* no summary entry, no later source
FetchFails_propagates(p) ==
    /\ pc[p] = "fetch"
    /\ pc' = [pc EXCEPT ![p] = "done"]
    /\ log' = [log EXCEPT ![p] = "error"]
    /\ site' = [site EXCEPT ![p] = QUICKET]
    /\ ncards' = [ncards EXCEPT ![p] = 0]
    /\ idx' = [idx EXCEPT ![p] = 0]
    /\ card' = [card EXCEPT ![p] = NoCard]
    /\ UNCHANGED <<probe, store, now, cards_left, run, counters, scrape_summary>>

\* launching the browser, page.goto or (Quicket) wait_for_selector raises
FetchFails(p) ==
    /\ pc[p] = "fetch"
    /\ \E text \in ErrorTexts : SourceFails(p, text)
    /\ UNCHANGED <<probe, store, now, cards_left, run>>


\* a variant of FetchNoCards that returns before it writes the summary entry
FetchNoCards_silent(p) ==
    /\ pc[p] = "fetch"
    /\ site[p] \in {ALLEVENTS, EVENTO}
    /\ log' = [log EXCEPT ![p] = "no_cards"]
    /\ NextSite(p)
    /\ UNCHANGED <<probe, store, now, cards_left, run, scrape_summary>>

\* scrape_site_with_playwright finds no card (wait_for_selector timed out or not)
FetchNoCards(p) ==
    /\ pc[p] = "fetch"
    /\ site[p] \in {ALLEVENTS, EVENTO}
    /\ scrape_summary' = [scrape_summary EXCEPT ![p] =
            SummaryPut(@, URLS[site[p]], ErrorEntry(<<"N","o"," ","e","v","e","n","t"," ","c","a","r","d","s"," ","f","o","u","n","d">>))]
    /\ log' = [log EXCEPT ![p] = "no_cards"]
    /\ NextSite(p)
    /\ UNCHANGED <<probe, store, now, cards_left, run>>

\* the page shows n >= 1 cards: the loop starts
FetchCards(p) ==
    /\ pc[p] = "fetch"
    /\ \E n \in 1..Min(MaxCards, cards_left) :
          /\ ncards' = [ncards EXCEPT ![p] = n]
          /\ cards_left' = cards_left - n
    /\ idx' = [idx EXCEPT ![p] = 1]
    /\ pc' = [pc EXCEPT ![p] = "extract"]
    /\ log' = [log EXCEPT ![p] = "found"]
    /\ UNCHANGED <<probe, store, now, run, site, card, scrape_summary, counters>>

\* a variant of SkipCard that goes on to the next card without counting this one
SkipCard_uncounted(p, why) ==
    /\ log' = [log EXCEPT ![p] = why]
    /\ NextCard(p)
    /\ UNCHANGED <<added_events, new_venues, skipped_events>>

SkipCard(p, why) ==
    /\ skipped_events' = [skipped_events EXCEPT ![p] = @ + 1]
    /\ log' = [log EXCEPT ![p] = why]
    /\ NextCard(p)
    /\ UNCHANGED <<added_events, new_venues>>


\* a variant of ExtractCard without the except clause of the card: an exception
\* reaches the outer except clause, which ends the source
ExtractCard_uncaught(p, i) ==
    /\ pc[p] = "extract"
    /\ IF Extracted[site[p]][i].outcome = "ok"
       THEN /\ card' = [card EXCEPT ![p] = Extracted[site[p]][i]]
            /\ pc' = [pc EXCEPT ![p] = "dedup"]
            /\ log' = [log EXCEPT ![p] = "extracted"]
            /\ UNCHANGED <<idx, site, ncards, counters, scrape_summary>>
       ELSE IF Extracted[site[p]][i].outcome = "raise"
            THEN \E text \in ErrorTexts : SourceFails(p, text)
            ELSE /\ SkipCard(p, Extracted[site[p]][i].outcome)
                 /\ UNCHANGED scrape_summary
    /\ UNCHANGED <<probe, store, now, cards_left, run>>

\* the try block(s) of the i-th card of the model: the locals are set, or the card
\* is skipped
ExtractCard(p, i) ==
    /\ pc[p] = "extract"
    /\ IF Extracted[site[p]][i].outcome = "ok"
       THEN /\ card' = [card EXCEPT ![p] = Extracted[site[p]][i]]
            /\ pc' = [pc EXCEPT ![p] = "dedup"]
            /\ log' = [log EXCEPT ![p] = "extracted"]
            /\ UNCHANGED <<idx, site, ncards, counters>>
       ELSE SkipCard(p, Extracted[site[p]][i].outcome)
    /\ UNCHANGED <<probe, store, now, cards_left, run, scrape_summary>>

Extract(p) ==
    \E i \in 1..Len(CardList[site[p]]) : ExtractCard(p, i)


\* a variant of permalink_site that leaves a relative href as it is
permalink_site_raw(url, event_url) ==
    event_url

\* the permalink the duplicate check of scrape_site_with_playwright uses
permalink_site(url, event_url) ==
    IF startswith(event_url, <<"/">>) THEN urljoin(url, event_url) ELSE event_url

\* the permalink the duplicate check of scrape_quicket uses
permalink_quicket(event_url) ==
    event_url

permalink(p) ==
    IF site[p] = QUICKET THEN permalink_quicket(card[p].event_url)
    ELSE permalink_site(URLS[site[p]], card[p].event_url)

\* events.where("sourceUrl", "==", event_url).get()
existing(event_url) ==
    {i \in DOMAIN events : events[i].sourceUrl = event_url}

\* a variant of Dedup that does not query the store: every card goes on to
\* the recency check and the venue
Dedup_unchecked(p) ==
    /\ pc[p] = "dedup"
    /\ pc' = [pc EXCEPT ![p] = "recency"]
    /\ log' = [log EXCEPT ![p] = "no_permalink"]
    /\ UNCHANGED <<idx, site, ncards, counters, card>>
    /\ UNCHANGED <<probe, store, now, cards_left, run, scrape_summary>>

\* "Duplicate prevention": only a card with a permalink queries the store
Dedup(p) ==
    /\ pc[p] = "dedup"
    /\ IF Truthy(card[p].event_url)
       THEN IF existing(permalink(p)) # {}
            THEN SkipCard(p, "duplicate")
            ELSE /\ card' = [card EXCEPT ![p].event_url = permalink(p)]
                 /\ pc' = [pc EXCEPT ![p] = "recency"]
                 /\ log' = [log EXCEPT ![p] = "not_duplicate"]
                 /\ UNCHANGED <<idx, site, ncards, counters>>
       ELSE /\ pc' = [pc EXCEPT ![p] = "recency"]
            /\ log' = [log EXCEPT ![p] = "no_permalink"]
            /\ UNCHANGED <<idx, site, ncards, counters, card>>
    /\ UNCHANGED <<probe, store, now, cards_left, run, scrape_summary>>

\* a variant of is_upcoming_event whose day count is rounded towards zero
is_upcoming_event_truncated(date_obj, today) ==
    LET minutes == date_obj - today
        delta == IF minutes >= 0 THEN minutes \div MinutesPerDay
                 ELSE -((-minutes) \div MinutesPerDay)
    IN  delta >= 0

\* (date_obj - today).days >= 0
is_upcoming_event(date_obj, today) ==
    LET delta == (date_obj - today) \div MinutesPerDay
    IN  delta >= 0

\* a variant of Recency that lets a start instant up to one day before the clock
\* pass
Recency_lenient(p) ==
    /\ pc[p] = "recency"
    /\ \E today \in ClockReadings :
          /\ today >= now
          /\ now' = today
          /\ IF ~is_upcoming_event(card[p].date_obj + MinutesPerDay, today)
             THEN SkipCard(p, "past")
             ELSE /\ pc' = [pc EXCEPT ![p] = "venue_query"]
                  /\ log' = [log EXCEPT ![p] = "upcoming"]
                  /\ UNCHANGED <<idx, site, ncards, counters, card>>
    /\ UNCHANGED <<probe, store, cards_left, run, scrape_summary>>

\* the clock is read, and a past event is skipped
Recency(p) ==
    /\ pc[p] = "recency"
    /\ \E today \in ClockReadings :
          /\ today >= now
          /\ now' = today
          /\ IF ~is_upcoming_event(card[p].date_obj, today)
             THEN SkipCard(p, "past")
             ELSE /\ pc' = [pc EXCEPT ![p] = "venue_query"]
                  /\ log' = [log EXCEPT ![p] = "upcoming"]
                  /\ UNCHANGED <<idx, site, ncards, counters, card>>
    /\ UNCHANGED <<probe, store, cards_left, run, scrape_summary>>

\* the query of get_or_create_venue
venue_matches(scraped_name, scraped_location) ==
    {i \in DOMAIN venues : /\ venues[i].name = normalize_string(scraped_name)
                           /\ venues[i].location = normalize_string(scraped_location)}

\* the document get_or_create_venue adds
new_venue(scraped_name, scraped_location) ==
    [name |-> scraped_name, location |-> scraped_location]

\* get_or_create_venue, up to its query: an existing venue is used, id query[0].id
VenueQuery(p) ==
    /\ pc[p] = "venue_query"
    /\ LET found == venue_matches(card[p].venue_name, card[p].location)
       IN  IF found # {}
           THEN /\ \E i \in found : card' = [card EXCEPT ![p].venue_id = i]
                /\ pc' = [pc EXCEPT ![p] = "insert"]
                /\ log' = [log EXCEPT ![p] = "existing_venue"]
           ELSE /\ pc' = [pc EXCEPT ![p] = "venue_add"]
                /\ log' = [log EXCEPT ![p] = "no_venue"]
                /\ UNCHANGED card
    /\ UNCHANGED <<probe, store, now, cards_left, run, site, ncards, idx, counters, scrape_summary>>

\* a variant of VenueAdd that does not return the id of the document it added
VenueAdd_no_id(p) ==
    /\ pc[p] = "venue_add"
    /\ venues' = Append(venues, new_venue(card[p].venue_name, card[p].location))
    /\ new_venues' = [new_venues EXCEPT ![p] = @ + 1]
    /\ pc' = [pc EXCEPT ![p] = "insert"]
    /\ log' = [log EXCEPT ![p] = "created_venue"]
    /\ UNCHANGED <<probe, events, now, cards_left, run, site, ncards, idx,
                   added_events, skipped_events, scrape_summary, card>>

\* get_or_create_venue, after its query found nothing: venues_ref.add(new_venue)
VenueAdd(p) ==
    /\ pc[p] = "venue_add"
    /\ venues' = Append(venues, new_venue(card[p].venue_name, card[p].location))
    /\ card' = [card EXCEPT ![p].venue_id = Len(venues) + 1]
    /\ new_venues' = [new_venues EXCEPT ![p] = @ + 1]
    /\ pc' = [pc EXCEPT ![p] = "insert"]
    /\ log' = [log EXCEPT ![p] = "created_venue"]
    /\ UNCHANGED <<probe, events, now, cards_left, run, site, ncards, idx,
                   added_events, skipped_events, scrape_summary>>

\* event_doc, without the fields that are constants or copies of the poster and the fee
event_doc(p) ==
    [name |-> card[p].event_name, date |-> card[p].date_obj, tzinfo |-> card[p].tzinfo,
     location |-> card[p].location, venueId |-> card[p].venue_id,
     venueName |-> card[p].venue_name, description |-> card[p].description,
     sourceUrl |-> card[p].event_url]

\* a variant of Insert that checks the permalink again, atomically with the add
Insert_checked(p) ==
    /\ pc[p] = "insert"
    /\ IF Truthy(card[p].event_url) /\ existing(card[p].event_url) # {}
       THEN /\ SkipCard(p, "duplicate")
            /\ UNCHANGED events
       ELSE /\ events' = Append(events, event_doc(p))
            /\ added_events' = [added_events EXCEPT ![p] = @ + 1]
            /\ log' = [log EXCEPT ![p] = "added"]
            /\ NextCard(p)
            /\ UNCHANGED <<skipped_events, new_venues>>
    /\ UNCHANGED <<probe, venues, now, cards_left, run, scrape_summary>>

\* events.add(event_doc); added_events += 1
Insert(p) ==
    /\ pc[p] = "insert"
    /\ events' = Append(events, event_doc(p))
    /\ added_events' = [added_events EXCEPT ![p] = @ + 1]
    /\ log' = [log EXCEPT ![p] = "added"]
    /\ NextCard(p)
    /\ UNCHANGED <<probe, venues, now, cards_left, run, skipped_events, new_venues, scrape_summary>>

\* a call of the store client raises: the outer except clause ends the source
StoreCallPending(p) ==
    \/ pc[p] = "dedup" /\ Truthy(card[p].event_url)
    \/ pc[p] \in {"venue_query", "venue_add", "insert"}

StoreFails(p) ==
    /\ StoreCallPending(p)
    /\ \E text \in ErrorTexts : SourceFails(p, text)
    /\ UNCHANGED <<probe, store, now, cards_left, run>>

\* a variant of Finish in which the source is left running in the background:
\* the next source starts before the entry of this one is recorded
Finish_detached(p) ==
    /\ pc[p] = "finish"
    /\ log' = [log EXCEPT ![p] = "finished"]
    /\ NextSite(p)
    /\ UNCHANGED <<probe, store, now, cards_left, run, scrape_summary>>

\* the loop is over: browser.close() and the summary entry of the source
Finish(p) ==
    /\ pc[p] = "finish"
    /\ scrape_summary' = [scrape_summary EXCEPT ![p] = SummaryPut(@, URLS[site[p]], FinishedEntry(p))]
    /\ log' = [log EXCEPT ![p] = "finished"]
    /\ NextSite(p)
    /\ UNCHANGED <<probe, store, now, cards_left, run>>

\* the script is started again: a new process image, an empty scrape_summary
NewRun(p) ==
    /\ pc[p] = "done"
    /\ run[p] < MaxRuns
    /\ run' = [run EXCEPT ![p] = @ + 1]
    /\ scrape_summary' = [scrape_summary EXCEPT ![p] = <<>>]
    /\ site' = [site EXCEPT ![p] = ALLEVENTS]
    /\ pc' = [pc EXCEPT ![p] = "fetch"]
    /\ log' = [log EXCEPT ![p] = "none"]
    /\ UNCHANGED <<probe, store, now, cards_left, ncards, idx, counters, card>>

\* one execution of scrape_all_sites, from its start to its end
RunStep(p) ==
    \/ FetchFails(p)
    \/ FetchNoCards(p)
    \/ FetchCards(p)
    \/ Extract(p)
    \/ Dedup(p)
    \/ Recency(p)
    \/ VenueQuery(p)
    \/ VenueAdd(p)
    \/ Insert(p)
    \/ StoreFails(p)
    \/ Finish(p)

Next ==
    \E p \in Processes : RunStep(p) \/ NewRun(p)

Spec ==
    Init /\ [][Next]_vars

(***************************************************************************)
(* Executions in which a step that can be taken is taken: every wait of    *)
(* the code (page.goto, wait_for_selector, the calls of the store client)  *)
(* ends, with a result or with a timeout exception                         *)
(***************************************************************************)
NextRun ==
    \E p \in Processes : RunStep(p)

LiveSpec ==
    Init /\ [][NextRun]_vars /\ WF_vars(NextRun)

(***************************************************************************)
(* Calls of is_enjoyment_event, which the pipelines never make: the        *)
(* arguments are any two short texts, the pipelines stay where they are    *)
(***************************************************************************)
MaxNameLen == 4
MaxDescLen == 4
MaxTextLen == 5

RelevanceAlphabet ==
    {"t", "r", "i", "p", "T"}

Texts(n) ==
    UNION {[1..k -> RelevanceAlphabet] : k \in 0..n}

RelevanceCalls ==
    {[fn |-> "is_enjoyment_event", event_name |-> n, description |-> d,
      returned |-> FALSE, result |-> FALSE] :
        <<n, d>> \in {x \in Texts(MaxNameLen) \X Texts(MaxDescLen) :
                          Len(x[1]) + Len(x[2]) <= MaxTextLen}}

InitRelevance ==
    /\ events = <<>>
    /\ venues = <<>>
    /\ now = Instant(2025, 12, 11, 12, 0)
    /\ cards_left = MaxCardsTotal
    /\ pc = [p \in Processes |-> "off"]
    /\ run = [p \in Processes |-> 1]
    /\ site = [p \in Processes |-> ALLEVENTS]
    /\ ncards = [p \in Processes |-> 0]
    /\ idx = [p \in Processes |-> 0]
    /\ added_events = [p \in Processes |-> 0]
    /\ skipped_events = [p \in Processes |-> 0]
    /\ new_venues = [p \in Processes |-> 0]
    /\ card = [p \in Processes |-> NoCard]
    /\ scrape_summary = [p \in Processes |-> <<>>]
    /\ log = [p \in Processes |-> "none"]
    /\ probe \in RelevanceCalls

\* the call returns: the function reads its two arguments and nothing else
CallIsEnjoymentEvent ==
    /\ probe.fn = "is_enjoyment_event"
    /\ ~probe.returned
    /\ probe' = [probe EXCEPT !.returned = TRUE,
                              !.result = is_enjoyment_event(probe.event_name, probe.description)]
    /\ UNCHANGED pipeline

NextRelevance ==
    CallIsEnjoymentEvent

RelevanceSpec ==
    InitRelevance /\ [][NextRelevance]_vars

(***************************************************************************)
(* Calls of is_upcoming_event on any start instant up to MaxOffsetDays     *)
(* before or after the reading of the clock, and on an instant far ahead   *)
(***************************************************************************)
MaxOffsetDays == 2

\* a start instant some thousand years ahead
LastInstant ==
    Instant(5000, 1, 1, 0, 0)

RecencyCalls ==
    {[fn |-> "is_upcoming_event", date_obj |-> t, today |-> today,
      returned |-> FALSE, result |-> FALSE] :
        <<t, today>> \in {x \in (Instant(2025, 12, 1, 0, 0)..Instant(2025, 12, 31, 0, 0)
                                 \cup {LastInstant}) \X ClockReadings :
                             \/ x[1] = LastInstant
                             \/ /\ x[1] - x[2] <= MaxOffsetDays * MinutesPerDay
                                /\ x[2] - x[1] <= MaxOffsetDays * MinutesPerDay}}

\* no pipeline is running
IdlePipeline ==
    /\ events = <<>>
    /\ venues = <<>>
    /\ now = Instant(2025, 12, 11, 12, 0)
    /\ cards_left = MaxCardsTotal
    /\ pc = [p \in Processes |-> "off"]
    /\ run = [p \in Processes |-> 1]
    /\ site = [p \in Processes |-> ALLEVENTS]
    /\ ncards = [p \in Processes |-> 0]
    /\ idx = [p \in Processes |-> 0]
    /\ added_events = [p \in Processes |-> 0]
    /\ skipped_events = [p \in Processes |-> 0]
    /\ new_venues = [p \in Processes |-> 0]
    /\ card = [p \in Processes |-> NoCard]
    /\ scrape_summary = [p \in Processes |-> <<>>]
    /\ log = [p \in Processes |-> "none"]

InitRecency ==
    /\ IdlePipeline
    /\ probe \in RecencyCalls

\* the call reads the clock (today) and returns
CallIsUpcomingEvent ==
    /\ probe.fn = "is_upcoming_event"
    /\ ~probe.returned
    /\ probe' = [probe EXCEPT !.returned = TRUE,
                              !.result = is_upcoming_event(probe.date_obj, probe.today)]
    /\ UNCHANGED pipeline

NextRecency ==
    CallIsUpcomingEvent

RecencySpec ==
    InitRecency /\ [][NextRecency]_vars

(***************************************************************************)
(* Two executions of the script at the same time, on the same store        *)
(***************************************************************************)
InitConcurrent ==
    /\ events = <<>>
    /\ venues = <<>>
    /\ now = Instant(2025, 12, 11, 12, 0)
    /\ cards_left = MaxCardsTotal
    /\ pc = [p \in Processes |-> "fetch"]
    /\ run = [p \in Processes |-> 1]
    /\ site = [p \in Processes |-> ALLEVENTS]
    /\ ncards = [p \in Processes |-> 0]
    /\ idx = [p \in Processes |-> 0]
    /\ added_events = [p \in Processes |-> 0]
    /\ skipped_events = [p \in Processes |-> 0]
    /\ new_venues = [p \in Processes |-> 0]
    /\ card = [p \in Processes |-> NoCard]
    /\ scrape_summary = [p \in Processes |-> <<>>]
    /\ log = [p \in Processes |-> "none"]
    /\ probe = NoProbe

\* the cards the two executions are shown: a card that raises and the cards with
\* a link, the title "Trip", the venue "club" and, of the optional elements, a
\* date at most
FewCards ==
    [s \in {ALLEVENTS, EVENTO, QUICKET} |->
        {i \in 1..Len(CardList[s]) :
            \/ CardList[s][i].raises
            \/ /\ Truthy(CardList[s][i].href)
               /\ CardList[s][i].title = <<"T","r","i","p">>
               /\ CardList[s][i].venue = <<"c","l","u","b">>
               /\ CardList[s][i].location \in {None, <<"c","l","u","b">>}
               /\ CardList[s][i].time = None
               /\ CardList[s][i].desc = None}]

ExtractFew(p) ==
    \E i \in FewCards[site[p]] : ExtractCard(p, i)

NextConcurrent ==
    \E p \in Processes :
        \/ FetchFails(p)
        \/ FetchNoCards(p)
        \/ FetchCards(p)
        \/ ExtractFew(p)
        \/ Dedup(p)
        \/ Recency(p)
        \/ VenueQuery(p)
        \/ VenueAdd(p)
        \/ Insert(p)
        \/ StoreFails(p)
        \/ Finish(p)

ConcurrentSpec ==
    InitConcurrent /\ [][NextConcurrent]_vars

(***************************************************************************)
(* Properties                                                              *)
(***************************************************************************)
Sources ==
    {ALLEVENTS, EVENTO, QUICKET}

\* the permalink of the card in hand as two candidates are compared by it: a
\* relative href of a page of scrape_site_with_playwright is taken absolute
AbsolutePermalink(p) ==
    IF site[p] # QUICKET /\ startswith(card[p].event_url, <<"/">>)
    THEN Origin(URLS[site[p]]) \o card[p].event_url
    ELSE card[p].event_url

PermalinkUnique ==
    \A i, j \in DOMAIN events :
        (i # j /\ Truthy(events[i].sourceUrl)) => events[i].sourceUrl # events[j].sourceUrl

DuplicateSkipped ==
    \A p \in Processes :
        (/\ pc[p] = "dedup"
         /\ pc'[p] # "dedup"
         /\ Truthy(card[p].event_url)
         /\ existing(AbsolutePermalink(p)) # {})
        => /\ events' = events
           /\ log'[p] # "error" => /\ log'[p] = "duplicate"
                                   /\ skipped_events'[p] = skipped_events[p] + 1
                                   /\ added_events'[p] = added_events[p]

C2_NoPermalinkAdmittedOnce ==
    \A i, j \in DOMAIN events :
        (/\ i # j
         /\ ~Truthy(events[i].sourceUrl)
         /\ ~Truthy(events[j].sourceUrl)
         /\ normalize_string(events[i].name) = normalize_string(events[j].name)
         /\ events[i].venueId = events[j].venueId)
        => events[i].date # events[j].date

\* C3: get_or_create_venue is idempotent: the venues collection never holds two
\* documents for the same normalized (name, location) pair, whatever the case of
\* the letters of the display name.
C3_OneVenuePerNormalizedPair ==
    \A i, j \in DOMAIN venues :
        (/\ i # j
         /\ normalize_string(venues[i].name) = normalize_string(venues[j].name))
        => normalize_string(venues[i].location) # normalize_string(venues[j].location)

\* C4: only candidates that pass the relevance check are persisted: every
\* document of the events collection has a keyword in its name or description.
C4_OnlyRelevantPersisted ==
    \A i \in DOMAIN events : is_enjoyment_event(events[i].name, events[i].description)

\* the date text of a card that the grammar of its source does not match: for
\* AllEvents no <time> element, no datetime attribute or one that is not an ISO
\* date; for Evento none of the four formats; for Quicket not "%B %d %Y"
DateUnparseable(s, c) ==
    /\ ~c.raises
    /\ IF s = ALLEVENTS
       THEN ~c.date_el \/ ~Truthy(c.date) \/ ~fromisoformat(c.date).ok
       ELSE IF s = EVENTO
            THEN \A k \in 1..Len(EventoFormats) :
                    ~strptime(strip(strip_ordinals(strip(TextOr(c.date, <<>>)))), EventoFormats[k]).ok
            ELSE ~strptime(quicket_join(quicket_clean(strip(TextOr(c.date, <<>>))),
                                        split(quicket_clean(strip(TextOr(c.date, <<>>))), ",")),
                           FmtQuicketDate).ok

UnparseableCards ==
    [s \in Sources |-> {i \in 1..Len(CardList[s]) : DateUnparseable(s, CardList[s][i])}]

\* C5: reading a card whose date text its source's grammar does not match adds
\* exactly one to skipped, writes no venue and no event, and ends the card: no
\* start instant, the current one or another, is kept for it.
C5_UnparseableDateSkipped ==
    [][\A p \in Processes : \A i \in UnparseableCards[site[p]] :
          ExtractCard(p, i)
          => /\ skipped_events'[p] = skipped_events[p] + 1
             /\ added_events'[p] = added_events[p]
             /\ new_venues'[p] = new_venues[p]
             /\ store' = store
             /\ idx'[p] = idx[p] + 1
             /\ card'[p] = NoCard
             /\ log'[p] \in {"no_date", "no_date_element", "raise"}]_vars

\* C5, its case: a Quicket card whose date is not "%B %d %Y" has just been skipped
C5_Witness ==
    \E p \in Processes :
        /\ site[p] = QUICKET
        /\ log[p] = "no_date"
        /\ skipped_events[p] >= 1
        /\ card[p] = NoCard

\* C6: a call of the store client that raises while a card is handled ends that
\* card only: the loop goes on with the next card of the same source and the
\* counters keep what the earlier cards added.
C6_StoreFailureEndsCardOnly ==
    [][\A p \in Processes :
          (StoreCallPending(p) /\ log'[p] = "error")
          => /\ site'[p] = site[p]
             /\ idx'[p] = idx[p] + 1
             /\ pc'[p] \in {"extract", "finish"}
             /\ added_events'[p] = added_events[p]
             /\ new_venues'[p] = new_venues[p]]_vars

RaisingCards ==
    [s \in Sources |-> {i \in 1..Len(CardList[s]) : CardList[s][i].raises}]

\* C7: reading a card whose element queries raise is caught: exactly one is added
\* to skipped, the store is not written, the summary gets no entry, and the loop
\* of the same source goes on with the next card or ends normally.
C7_ExtractionExceptionCaught ==
    [][\A p \in Processes : \A i \in RaisingCards[site[p]] :
          ExtractCard(p, i)
          => /\ skipped_events'[p] = skipped_events[p] + 1
             /\ added_events'[p] = added_events[p]
             /\ new_venues'[p] = new_venues[p]
             /\ store' = store
             /\ scrape_summary' = scrape_summary
             /\ site'[p] = site[p]
             /\ ncards'[p] = ncards[p]
             /\ idx'[p] = idx[p] + 1
             /\ pc'[p] = IF idx[p] < ncards[p] THEN "extract" ELSE "finish"]_vars

\* C7, its case: the first card of a page raised and the second one is being read
C7_Witness ==
    \E p \in Processes :
        /\ log[p] = "raise"
        /\ pc[p] = "extract"
        /\ idx[p] = 2
        /\ skipped_events[p] = 1

FetchFailureRecorded(p) ==
    FetchFails(p)
    => /\ URLS[site[p]] \in DOMAIN scrape_summary'[p]
       /\ scrape_summary'[p][URLS[site[p]]].added_events = 0
       /\ scrape_summary'[p][URLS[site[p]]].skipped = 0
       /\ scrape_summary'[p][URLS[site[p]]].new_venues = 0
       /\ Truthy(scrape_summary'[p][URLS[site[p]]].error)
       /\ store' = store
       /\ site[p] # QUICKET => /\ site'[p] = site[p] + 1
                               /\ pc'[p] = "fetch"

EntriesKept(p) ==
    run'[p] = run[p]
    => \A u \in DOMAIN scrape_summary[p] :
          /\ u \in DOMAIN scrape_summary'[p]
          /\ scrape_summary'[p][u] = scrape_summary[p][u]

\* C8: a source whose fetch fails gets the summary entry 0, 0, 0 with a non-empty
\* error and writes nothing to the store; the next source is started, and within
\* a run no step changes the entry of another source.
C8_FetchFailureIsolated ==
    [][\A p \in Processes : FetchFailureRecorded(p) /\ EntriesKept(p)]_vars

\* C8, its case: the fetch of AllEvents failed in the first run, before any page
\* showed a card, and Evento is about to be fetched
C8_Witness ==
    \E p \in Processes :
        /\ pc[p] = "fetch"
        /\ site[p] = EVENTO
        /\ log[p] = "error"
        /\ cards_left = MaxCardsTotal
        /\ scrape_summary[p][URLS[ALLEVENTS]].error \in ErrorTexts

SummaryComplete(p) ==
    /\ pc[p] = "done"
    /\ DOMAIN scrape_summary[p] = {URLS[s] : s \in Sources}

FailureHasErrorText(p) ==
    (FetchFails(p) \/ StoreFails(p))
    => /\ URLS[site[p]] \in DOMAIN scrape_summary'[p]
       /\ Truthy(scrape_summary'[p][URLS[site[p]]].error)

\* C9: every execution of scrape_all_sites that starts ends, with one entry of
\* scrape_summary for each of the three source URLs, whatever fails on the way;
\* the entry a failing source writes has a non-empty error.
C9_RunEndsWithThreeEntries ==
    /\ \A p \in Processes : pc[p] # "off" ~> SummaryComplete(p)
    /\ [][\A p \in Processes : FailureHasErrorText(p)]_vars

\* C9, its case: an execution is over in which one source failed, one added an
\* event and one skipped a card
C9_Witness ==
    \E p \in Processes :
        /\ SummaryComplete(p)
        /\ scrape_summary[p][URLS[ALLEVENTS]].error \in ErrorTexts
        /\ scrape_summary[p][URLS[EVENTO]].added_events = 1
        /\ scrape_summary[p][URLS[QUICKET]].skipped = 1

KeywordIn(text) ==
    \E k \in 1..Len(ENJOYMENT_CATEGORIES) : Contains(lower(text), ENJOYMENT_CATEGORIES[k])

\* C10 as stated: is_enjoyment_event returns true iff a keyword is a substring
\* of the lower-cased concatenation of name and description, a keyword that
\* straddles the two included.
C10_KeywordInConcatenation ==
    (probe.fn = "is_enjoyment_event" /\ probe.returned)
    => probe.result = KeywordIn(probe.event_name \o probe.description)

\* C10 amended: is_enjoyment_event returns true iff a keyword is, letter case
\* aside, a substring of the name or a substring of the description (the two are
\* joined by a space, so a keyword that straddles them is not matched); the call
\* changes nothing but its result.
C10_KeywordInNameOrDescription ==
    /\ [](probe.fn = "is_enjoyment_event" /\ probe.returned
          => probe.result = (KeywordIn(probe.event_name) \/ KeywordIn(probe.description)))
    /\ [][probe.fn = "is_enjoyment_event" => UNCHANGED pipeline]_vars

\* C10, its case: a call has returned false for a name and a description that
\* have a keyword across their boundary, one of its letters in upper case
C10_Witness ==
    /\ probe.fn = "is_enjoyment_event"
    /\ probe.returned
    /\ ~probe.result
    /\ KeywordIn(probe.event_name \o probe.description)
    /\ probe.event_name # lower(probe.event_name)

\* C11: is_upcoming_event returns true iff the start instant is not before the
\* reading of the clock: an instant less than a day before it is rejected, an
\* instant any distance after it is accepted.
C11_UpcomingIffNotBeforeNow ==
    (probe.fn = "is_upcoming_event" /\ probe.returned)
    => probe.result = (probe.date_obj >= probe.today)

\* C11, its case: a start instant one minute before the reading of the clock has
\* been rejected
C11_Witness ==
    /\ probe.fn = "is_upcoming_event"
    /\ probe.returned
    /\ ~probe.result
    /\ probe.date_obj = probe.today - 1

\* the cards that show the literal inputs: Quicket "Friday, December 12, 2025"
\* without a time text, Evento "December 12 @ 7:00 PM", AllEvents datetime
\* "2025-12-12" with the time text "7:30 PM"
LiteralCard(s, c) ==
    /\ ~c.raises
    /\ IF s = QUICKET
       THEN c.date = <<"F","r","i","d","a","y",","," ","D","e","c","e","m","b","e","r"," ","1","2",","," ","2","0","2","5">> /\ c.time = None
       ELSE IF s = EVENTO
            THEN c.date = <<"D","e","c","e","m","b","e","r"," ","1","2"," ","@"," ","7",":","0","0"," ","P","M">>
            ELSE c.date_el /\ c.date = <<"2","0","2","5","-","1","2","-","1","2">> /\ c.time = <<"7",":","3","0"," ","P","M">>

LiteralCards ==
    [s \in Sources |-> {i \in 1..Len(CardList[s]) : LiteralCard(s, CardList[s][i])}]

LiteralInstant(s) ==
    IF s = QUICKET THEN Instant(2025, 12, 12, 0, 0)
    ELSE IF s = EVENTO THEN Instant(2025, 12, 12, 19, 0)
    ELSE Instant(2025, 12, 12, 19, 30)

\* C12: reading a card that shows the literal input of its source gives the
\* expected start instant: 2025-12-12T00:00Z for Quicket, 2025-12-12T19:00Z for
\* Evento (the year supplied), 2025-12-12T19:30Z for AllEvents.
C12_LiteralInputsNormalized ==
    [][\A p \in Processes : \A i \in LiteralCards[site[p]] :
          ExtractCard(p, i)
          => /\ card'[p].outcome = "ok"
             /\ card'[p].date_obj = LiteralInstant(site[p])]_vars

\* C13: the store is queried for a candidate only after the relevance check, the
\* date parse and the recency check: the duplicate query on sourceUrl is issued
\* only for a card that has a keyword and whose start instant is not before the
\* clock.
C13_StoreQueriedAfterFilters ==
    [][\A p \in Processes :
          (/\ pc[p] = "dedup"
           /\ pc'[p] # "dedup"
           /\ Truthy(card[p].event_url))
          => /\ is_upcoming_event(card[p].date_obj, now)
             /\ is_enjoyment_event(card[p].event_name, card[p].description)]_vars

\* the recency check of the card in hand: now' is the reading of the clock
PastSkipped(p) ==
    (pc[p] = "recency" /\ pc'[p] # "recency" /\ card[p].date_obj < now')
    => /\ skipped_events'[p] = skipped_events[p] + 1
       /\ added_events'[p] = added_events[p]
       /\ new_venues'[p] = new_venues[p]
       /\ store' = store
       /\ idx'[p] = idx[p] + 1
       /\ card'[p] = NoCard

\* an event is appended with a start instant that is not before the clock reading
\* of its recency check (the last reading, with one process)
AppendedNotPast(p) ==
    (pc[p] = "insert" /\ events' # events)
    => /\ card[p].date_obj >= now
       /\ events' = Append(events, event_doc(p))

\* C14: a card whose start instant is before the clock reading of its recency
\* check adds one to skipped, creates no venue and is dropped; the cards that go
\* on to the venue lookup and the insert have a start instant not before that
\* reading.
C14_PastEventNeverAppended ==
    /\ [](\A p \in Processes :
            pc[p] \in {"venue_query", "venue_add", "insert"} => card[p].date_obj >= now)
    /\ [][\A p \in Processes : PastSkipped(p) /\ AppendedNotPast(p)]_vars

\* C14, its case: a Quicket card dated the day of the clock reading, some hours
\* before it, has just been skipped as past
C14_Witness ==
    \E p \in Processes :
        /\ site[p] = QUICKET
        /\ log[p] = "past"
        /\ skipped_events[p] >= 1
        /\ now = Instant(2025, 12, 12, 12, 0)
        /\ events = <<>>

\* the time text of a card of AllEvents or Quicket that is empty or is not a time
\* of day in the format of its source
TimeUnparseable(s, c) ==
    IF s = ALLEVENTS THEN ~strptime(strip(TextOr(c.time, <<>>)), FmtTime12).ok
    ELSE \/ ~Truthy(TextOr(c.time, <<>>))
         \/ ~strptime(strip(TextOr(c.time, <<>>)), FmtTime24).ok

\* the cards whose date parses and whose time does not
DateOnlyCards ==
    [s \in Sources |->
        {i \in 1..Len(CardList[s]) : /\ s # EVENTO
                                     /\ ~CardList[s][i].raises
                                     /\ ~DateUnparseable(s, CardList[s][i])
                                     /\ TimeUnparseable(s, CardList[s][i])}]

\* 00:00 of the day the date text of the card names
MidnightOf(s, c) ==
    IF s = ALLEVENTS
    THEN Instant(fromisoformat(c.date).y, fromisoformat(c.date).mo, fromisoformat(c.date).d, 0, 0)
    ELSE DateOf(Extracted[s][CHOOSE i \in 1..Len(CardList[s]) :
                                 /\ CardList[s][i].date = c.date
                                 /\ CardList[s][i].time = None
                                 /\ ~CardList[s][i].raises].date_obj)

\* C15: a card of AllEvents or Quicket whose date parses and whose time text is
\* empty or does not parse is not skipped: its start instant is midnight UTC of
\* the parsed date; the start instant of every stored event is aware, at UTC.
C15_TimeFailureFallsBackToMidnight ==
    /\ [](\A i \in DOMAIN events : events[i].tzinfo = UTC)
    /\ [][\A p \in Processes : \A i \in DateOnlyCards[site[p]] :
             ExtractCard(p, i)
             => /\ card'[p].outcome = "ok"
                /\ card'[p].date_obj = MidnightOf(site[p], CardList[site[p]][i])
                /\ card'[p].date_obj % MinutesPerDay = 0
                /\ card'[p].tzinfo = UTC
                /\ pc'[p] = "dedup"
                /\ skipped_events'[p] = skipped_events[p]]_vars

\* C15, its case: an AllEvents card with the time text "19:30", which is not
\* "%I:%M %p", is in hand with the start instant 2025-12-12T00:00Z
C15_Witness ==
    \E p \in Processes :
        /\ site[p] = ALLEVENTS
        /\ pc[p] = "dedup"
        /\ card[p].date_obj = Instant(2025, 12, 12, 0, 0)
        /\ card[p].tzinfo = UTC
        /\ \E i \in DateOnlyCards[ALLEVENTS] :
              /\ CardList[ALLEVENTS][i].time = <<"1","9",":","3","0">>
              /\ Extracted[ALLEVENTS][i] = card[p]

\* C16: nothing is held between the duplicate query and the insert: a process
\* that passed the query appends its event whatever another process has appended
\* since, so two processes that both pass the query for one permalink before
\* either inserts leave two documents with that sourceUrl.
C16_InsertAfterCheckUnguarded ==
    [][\A p \in Processes :
          (pc[p] = "insert" /\ pc'[p] # "insert" /\ log'[p] # "error")
          => /\ events' = Append(events, event_doc(p))
             /\ added_events'[p] = added_events[p] + 1
             /\ skipped_events'[p] = skipped_events[p]]_vars

\* C16, its case: both processes have added an event, and the two documents have
\* the same non-empty sourceUrl
C16_Witness ==
    /\ \A p \in Processes : added_events[p] = 1 \/ \E u \in DOMAIN scrape_summary[p] :
                                                     scrape_summary[p][u].added_events = 1
    /\ Len(events) = 2
    /\ Truthy(events[1].sourceUrl)
    /\ events[1].sourceUrl = events[2].sourceUrl

\* the sources before s in the order allevents.ug, evento.ug, quicket
Preceding(s) ==
    {t \in Sources : t < s}

\* the entries of all sources before the one in hand are recorded
PrecedingRecorded(p) ==
    \A t \in Preceding(site[p]) : URLS[t] \in DOMAIN scrape_summary[p]

\* the source in hand changes only to the next one in the order, and only in a
\* step that leaves its entry recorded
NextSourceInOrder(p) ==
    (site'[p] # site[p] /\ run'[p] = run[p])
    => /\ site'[p] = site[p] + 1
       /\ URLS[site[p]] \in DOMAIN scrape_summary'[p]

\* a step of p that reads or writes the store
StoreStep(p) ==
    \/ StoreCallPending(p) /\ pc'[p] # pc[p]
    \/ pc[p] # "off" /\ pc'[p] # pc[p] /\ store' # store

\* C17: in one execution the sources are taken in the order allevents.ug,
\* evento.ug, quicket, one after the other: whenever a source is being scraped,
\* and at every read or write of the store, the summary entries of all sources
\* before it are recorded, and the entry of a source not yet started is not.
C17_SourcesInOrder ==
    /\ [](\A p \in Processes :
            pc[p] \notin {"off", "done"}
            => /\ PrecedingRecorded(p)
               /\ \A t \in Sources : t >= site[p] => URLS[t] \notin DOMAIN scrape_summary[p])
    /\ [][\A p \in Processes :
             /\ NextSourceInOrder(p)
             /\ StoreStep(p) => PrecedingRecorded(p)]_vars

\* C17, its case: an event of Quicket is being inserted while the entries of
\* allevents.ug and evento.ug are recorded, one of them with an added event
C17_Witness ==
    \E p \in Processes :
        /\ site[p] = QUICKET
        /\ pc[p] = "insert"
        /\ DOMAIN scrape_summary[p] = {URLS[ALLEVENTS], URLS[EVENTO]}
        /\ scrape_summary[p][URLS[EVENTO]].added_events = 1

\* the venue documents whose id is the venueId of an event document
VenuesOf(e) ==
    {j \in DOMAIN venues : j = e.venueId}

\* the venues collection only grows, by one document added at its end
VenuesOnlyAdded ==
    \/ venues' = venues
    \/ /\ Len(venues') = Len(venues) + 1
       /\ SubSeq(venues', 1, Len(venues)) = venues

\* C18: every event document refers by venueId to exactly one venue document
\* that is in the venues collection, the one resolved for its venue name; a venue
\* document, once added, is never changed or removed.
C18_EventRefersToOneVenue ==
    /\ [](\A i \in DOMAIN events :
            /\ Cardinality(VenuesOf(events[i])) = 1
            /\ \A j \in VenuesOf(events[i]) :
                  normalize_string(venues[j].name) = normalize_string(events[i].venueName))
    /\ [][VenuesOnlyAdded]_vars

\* C18, its case: two events refer to the same venue, which the first created and
\* the second found
C18_Witness ==
    /\ Len(events) = 2
    /\ Len(venues) = 1
    /\ events[1].venueId = 1
    /\ events[2].venueId = 1

\* a count of the summary entry of source s, 0 while the entry is not recorded
Recorded(p, s, count) ==
    IF URLS[s] \in DOMAIN scrape_summary[p] THEN scrape_summary[p][URLS[s]][count] ELSE 0

RecordedTotal(p, count) ==
    Recorded(p, ALLEVENTS, count) + Recorded(p, EVENTO, count) + Recorded(p, QUICKET, count)

\* C19: the added_events and new_venues of the summary entries are the numbers
\* of documents the source runs appended, runs that end with an error included:
\* in the first execution on an empty store, between two sources and at the end,
\* the recorded counts add up to the sizes of the two collections.
C19_SummaryCountsMatchStore ==
    \A p \in Processes :
        (run[p] = 1 /\ pc[p] \in {"fetch", "done"})
        => /\ RecordedTotal(p, "added_events") = Len(events)
           /\ RecordedTotal(p, "new_venues") = Len(venues)

\* the steps of the card loop between the top of an iteration and its end
InCardLoop(p) ==
    pc[p] \in {"extract", "dedup", "recency", "venue_query", "venue_add", "insert"}

\* the step records a summary entry without error for the source p is running
RecordsFinished(p) ==
    /\ scrape_summary'[p] # scrape_summary[p]
    /\ URLS[site[p]] \in DOMAIN scrape_summary'[p]
    /\ scrape_summary'[p][URLS[site[p]]].error = None

\* C20: every card ends in exactly one outcome. At every point of the card
\* loop added_events + skipped_events is the number of cards fully processed
\* (idx - 1 while card idx is in progress, all of them after the loop), and
\* a summary entry recorded with error = None has added_events + skipped =
\* the number of cards found.
C20_EveryCardOneOutcome ==
    /\ [](\A p \in Processes :
            /\ InCardLoop(p) => added_events[p] + skipped_events[p] = idx[p] - 1
            /\ pc[p] = "finish" => /\ idx[p] = ncards[p] + 1
                                   /\ added_events[p] + skipped_events[p] = ncards[p])
    /\ [][\A p \in Processes :
            RecordsFinished(p)
            => LET entry == scrape_summary'[p][URLS[site[p]]]
               IN  /\ ncards[p] >= 1
                   /\ entry.added_events + entry.skipped = ncards[p]]_vars

\* a source finished without error with one card added and one card skipped
C20_Witness ==
    \E p \in Processes : \E s \in Sources :
        /\ URLS[s] \in DOMAIN scrape_summary[p]
        /\ scrape_summary[p][URLS[s]].error = None
        /\ scrape_summary[p][URLS[s]].added_events = 1
        /\ scrape_summary[p][URLS[s]].skipped = 1

\* the steps of get_or_create_venue and the add of the event that follows it
AtVenue(p) ==
    pc[p] \in {"venue_query", "venue_add"}

\* the candidate of p has been extracted with a parsed date, no stored event
\* has its permalink, and its date is not before the clock reading of the
\* recency check
PassedFilters(p) ==
    /\ card[p].outcome = "ok"
    /\ card[p].tzinfo = UTC
    /\ Truthy(card[p].event_url) => existing(card[p].event_url) = {}
    /\ is_upcoming_event(card[p].date_obj, now)

\* p begins the venue lookup in this step
VenueLookupBegins(p) ==
    pc'[p] = "venue_query" /\ pc[p] # "venue_query"

\* p has created a venue for its card and has not yet added the event
VenueCreatedForCard(p) ==
    pc[p] = "insert" /\ log[p] = "created_venue"

\* the step adds the event of the card of p, referring to the venue of the card
AddsEventOfCard(p) ==
    /\ Len(events') = Len(events) + 1
    /\ events'[Len(events')].venueId = card[p].venue_id
    /\ events'[Len(events')].name = card[p].event_name
    /\ added_events'[p] = added_events[p] + 1

\* the step ends the source of p with an error entry
EndsWithError(p) ==
    /\ scrape_summary'[p] # scrape_summary[p]
    /\ URLS[site[p]] \in DOMAIN scrape_summary'[p]
    /\ scrape_summary'[p][URLS[site[p]]].error # None

\* no source of the execution of p has ended with an exception so far
NoExceptionSoFar(p) ==
    \A u \in DOMAIN scrape_summary[p] :
        scrape_summary[p][u].error \in {None, <<"N","o"," ","e","v","e","n","t"," ","c","a","r","d","s"," ","f","o","u","n","d">>}

\* C21: a venue is looked up or created only for a candidate that has passed
\* extraction, date parsing, the permalink dedup check and the recency check;
\* a venue a card creates is followed by the add of that card's event unless
\* the source ends with an error, so new_venues <= added_events in every
\* entry recorded with error = None, and in an execution on an empty store
\* without exceptions every venue document is referred to by an added event.
C21_VenueOnlyForAddedCandidate ==
    /\ [](\A p \in Processes :
            /\ AtVenue(p) => PassedFilters(p) /\ new_venues[p] <= added_events[p]
            /\ pc[p] = "venue_add" => venue_matches(card[p].venue_name, card[p].location) = {}
            /\ pc[p] = "insert" =>
                  new_venues[p] <= added_events[p] + (IF VenueCreatedForCard(p) THEN 1 ELSE 0)
            /\ pc[p] \in {"extract", "dedup", "recency", "finish"} =>
                  new_venues[p] <= added_events[p]
            /\ (\A q \in Processes : run[q] = 1 /\ NoExceptionSoFar(q)) =>
                  \A j \in DOMAIN venues :
                      \/ \E i \in DOMAIN events : events[i].venueId = j
                      \/ \E q \in Processes :
                            VenueCreatedForCard(q) /\ card[q].venue_id = j)
    /\ [][\A p \in Processes :
            /\ VenueLookupBegins(p) => pc[p] = "recency" /\ card'[p] = card[p] /\ PassedFilters(p)'
            /\ venues' # venues =>
                  \E q \in Processes : pc[q] = "venue_add" /\ pc'[q] = "insert"
            /\ (VenueCreatedForCard(p) /\ pc'[p] # "insert") =>
                  AddsEventOfCard(p) \/ EndsWithError(p)
            /\ RecordsFinished(p) =>
                  scrape_summary'[p][URLS[site[p]]].new_venues
                      <= scrape_summary'[p][URLS[site[p]]].added_events]_vars

\* a source finished without error in which one card created a venue and was
\* added and another card was skipped
C21_Witness ==
    \E p \in Processes : \E s \in Sources :
        /\ URLS[s] \in DOMAIN scrape_summary[p]
        /\ scrape_summary[p][URLS[s]].error = None
        /\ scrape_summary[p][URLS[s]].new_venues = 1
        /\ scrape_summary[p][URLS[s]].added_events >= 1
        /\ scrape_summary[p][URLS[s]].skipped >= 1
        /\ Len(venues) >= 1

====
